---- MODULE Spec2Model ----
(***************************************************************************)
(* Model of the pitch analyzer: PitchDetector.detect_pitch_multi_method    *)
(* (fusion of the three estimators), autocorrelation_pitch and             *)
(* frequency_to_note, AudioUtils.find_voiced_segments, and of              *)
(* AudioPitchAnalyzer the calls analyze_pitch, compare_pitches,            *)
(* compare_multiple_files and analyze_pitch_contour, with the option       *)
(* parsing and the exit status of main.py.  Each call starts from the idle *)
(* state and is followed by a return to it.                                *)
(*                                                                         *)
(* Spec holds every call but analyze_pitch, from four constructed          *)
(* analyzers; AnalysisSpec holds analyze_pitch on the default analyzer;    *)
(* FusionSpec holds the fusion with a spectral-peak confidence >= 0.       *)
(*                                                                         *)
(* Units.  Frequencies are integer Hz.  Confidences and fusion weights are *)
(* integers in tenths (0.8 is 8, 0.6 is 6).  Times are integer sample      *)
(* counts (seconds times sr), so frame_times[i] = i * hop_length.          *)
(* Quotients are exact rationals <<numerator, denominator>> in lowest      *)
(* terms; floating-point rounding of the quotients is not modelled.        *)
(***************************************************************************)
EXTENDS Integers, Sequences, FiniteSets, TLC

\* ---------------------------------------------------------------- bounds
\* frequencies an estimator reports: 0 or 100 + 10*k Hz, k in 0..MaxFreqSteps
MaxFreqSteps == 3
\* number of RMS frames of a clip handed to find_voiced_segments
MaxFrames == 6
\* buffer length, in samples, of a contour clip
MaxLen == 9
\* frame length, in samples, of a contour analysis (int(frame_size * sr))
MaxFrameSamples == 6
\* largest distance from A4, in quarters of a semitone, of a frequency given
\* to frequency_to_note: note numbers -14 .. 152
MaxOffset == 330
\* largest number of voiced segments of a clip
MaxSegments == 6
\* largest number of files given to a comparison
MaxFiles == 3

\* ------------------------------------------------------ program constants
YinWeight == 8
AutocorrWeight == 6
ConsistencyThreshold == 10
hop_length == 512
EnergyFactorInv == 10

\* frequency_to_note: A4_freq and A4_note_number
A4_freq == 440
A4_note_number == 69
\* the analyzer's sample rate (AudioPitchAnalyzer.__init__ default)
DefaultSr == 22050

\* ------------------------------------------------------------ input sets
PosFreqs == {100 + 10 * k : k \in 0..MaxFreqSteps}
FreqValues == {0} \cup PosFreqs
\* confidences the spectral-peak estimator reports with a frequency > 0
ConfValues == {3, 6, 8, 12}
\* RMS energies of a frame (arbitrary non-negative units)
RmsLevels == {0, 1, 20}
\* min_duration * sr, in samples (2205 is the default 0.1 s at 22050 Hz)
MinDurations == {0, 512, 1000, 2205}
\* (start_time, end_time) arguments of a contour call, in seconds
TimeRanges == {<<0, 1>>, <<2, 5>>, <<1, 1>>, <<3, 2>>}
\* what detect_fundamental_frequency reports for one contour frame:
\* (0, 0) or a frequency on the octave grid of A4 with its confidence
FrameResults == {<<0, 0>>, <<440, 5>>, <<880, 9>>}
\* a parsed time argument of analyze_pitch: <<>> is None, <<t>> is t seconds
StartTimes == {<<>>, <<-2>>, <<0>>, <<1>>, <<3>>}
EndTimes == {<<>>, <<-1>>, <<0>>, <<1>>, <<3>>}
\* sample rates and buffer lengths of the autocorrelation estimator, small
\* enough to enumerate every lag: lags 0..2, 0..10 and 2..50
SampleRates == {160, 800, 4000, DefaultSr}
BufferLengths == {0, 1, 3, 10, 11, 50, 51, 60}
\* overall frequencies (Hz) and confidences (tenths) of two analysis results,
\* and the tolerance of the analyzer in hundredths: the constructor takes any
\* float, 0.05 by default
OverallFreqs == {0, 380, 400, 440}
OverallConfs == {0, 3, 8}
Tolerances == {-5, 0, 5, 10}
\* the (sr, tolerance) arguments of the constructor
Configurations == {<<160, -5>>, <<800, 0>>, <<4000, 10>>, <<DefaultSr, 5>>}
\* the method argument of analyze_pitch: the four known names and another
MethodArguments == {"multi", "piptrack", "yin", "autocorr", "cepstrum"}
\* what the estimators return for a clip: piptrack undetected or A4 with
\* confidence 0.3, YIN 0 or A4, autocorrelation 0 or A5
DetectedPitches == {<<0, 0>>, <<440, 3>>}
YinPitches == {0, 440}
AutocorrPitches == {0, 880}
\* what happens to a voiced segment in the loop of analyze_pitch: extraction
\* or estimation raises, the segment is not longer than 50 ms, its fused
\* frequency is 0, or it is > 0
SegmentOutcomes == {"raises", "short", "zero", "pitched"}
\* what analyze_pitch does for one file of compare_multiple_files: it
\* raises, or returns this overall frequency (Hz) and confidence (tenths)
FileOutcomes ==
    {[raised |-> TRUE, frequency |-> 0, confidence |-> 0]}
    \cup {[raised |-> FALSE, frequency |-> r[1], confidence |-> r[2]] :
            r \in {<<0, 0>>, <<380, 3>>, <<400, 8>>, <<440, 8>>}}
\* options given on the command line
CliOptions ==
    {"--pitch-contour", "--frame-size", "--start-time", "--end-time",
     "--analyze-only"}
\* largest absolute sample value of a buffer given to an estimator
PeakAmplitudes == {0, 3}

VARIABLES
    op,            \* "idle" before the call, then the name of the call made
    freq1, conf1,  \* result of detect_fundamental_frequency
    freq2,         \* result of detect_pitch_yin
    freq3,         \* result of autocorrelation_pitch
    frequencies,   \* the list of (frequency, weight) pairs fusion collected
    fused,         \* return value of detect_pitch_multi_method
    rms,           \* RMS energy per frame
    min_duration,  \* min_duration argument, in samples
    voiced_frames, \* rms > energy_threshold, per frame
    segments,      \* return value of find_voiced_segments
    len_y,         \* len(y) of the contour clip
    frame_samples, \* int(frame_size * sr)
    offsets,       \* the frame offsets i the contour loop visited
    raised,        \* TRUE when the contour call raised instead of returning
    contour_start, \* start_time argument of the contour call, in seconds
    contour_end,   \* end_time argument of the contour call, in seconds
    loaded,        \* TRUE once the contour call has called load_audio
    times,         \* time point per frame, in samples (seconds times sr)
    contour_frequencies, \* the contour's list "frequencies", Hz per frame
    confidences,   \* confidence per frame, in tenths
    notes,         \* note label per frame
    intervals,     \* interval per frame, in semitones
    statistics,    \* the 'statistics' record of the contour result
    ap_start,      \* analyze_pitch: parsed start_time, <<>> when None
    ap_end,        \* analyze_pitch: parsed end_time, <<>> when None
    offset,        \* analyze_pitch: offset, in seconds
    duration,      \* analyze_pitch: duration, in seconds, <<>> when None
    ap_error,      \* analyze_pitch: "none", or the error raised
    ap_loaded,     \* analyze_pitch: TRUE once load_audio was called
    ap_method,     \* analyze_pitch: the method argument
    ap_overall,    \* analyze_pitch: (frequency, confidence) of the clip
    ap_note,       \* analyze_pitch: note of the overall frequency
    ap_voiced,     \* analyze_pitch: voiced_segments
    ap_outcomes,   \* analyze_pitch: what happened to each analyzed segment
    segment_pitches, \* analyze_pitch: the list segment_pitches
    time_range,    \* analyze_pitch: start_time, end_time of 'time_range'
    ac_sr,         \* autocorrelation_pitch: self.sr
    ac_len,        \* autocorrelation_pitch: len(y)
    ac_silent,     \* autocorrelation_pitch: every sample of y is 0
    ac_divided,    \* autocorrelation_pitch: y was divided by a peak of 0
    ac_raised,     \* autocorrelation_pitch: TRUE when the call raised
    ac_result,     \* autocorrelation_pitch: the returned frequency
    note_sign,     \* frequency_to_note: sign of the frequency argument
    note_offset,   \* frequency_to_note: 48 * log2(frequency / 440)
    note_number,   \* frequency_to_note: note_number
    note,          \* frequency_to_note: the returned label
    cmp_in,        \* compare_pitches: frequencies, confidences, tolerance
    comparison,    \* compare_pitches: the returned record
    comparison_keys, \* compare_pitches: the keys of the returned dict
    ac_y,          \* autocorrelation_pitch: the buffer as it was passed
    caller_y,      \* autocorrelation_pitch: the caller's buffer afterwards
    caller_results, \* compare_pitches: the caller's two dicts afterwards
    cli_options,   \* main: the options on the command line
    cli_existing,  \* main: number of existing files given
    cli_failed,    \* main: an analysis or comparison raised
    cli_mode,      \* main: the branch taken
    exit_status,   \* main: exit status of the process
    cm_files,      \* compare_multiple_files: analyze_pitch per path
    cm_error,      \* compare_multiple_files: "none", or why it raised
    cm_results,    \* compare_multiple_files: the list results
    cm_pairs,      \* compare_multiple_files: the (i, j) compared, in order
    cm_comparisons, \* compare_multiple_files: pairwise_comparisons
    cm_file_count, \* compare_multiple_files: file_count
    cm_summary,    \* compare_multiple_files: summary
    self_sr,       \* AudioPitchAnalyzer.sr
    self_tolerance, \* AudioPitchAnalyzer.tolerance, in hundredths
    detector_sr,   \* PitchDetector.sr
    detector_hop_length \* PitchDetector.hop_length

vars == <<op, freq1, conf1, freq2, freq3, frequencies, fused,
          rms, min_duration, voiced_frames, segments,
          len_y, frame_samples, offsets, raised, contour_start, contour_end,
          loaded, times, contour_frequencies, confidences, notes, intervals,
          statistics, ap_start, ap_end, offset, duration, ap_error, ap_loaded,
          ap_method, ap_overall, ap_note, ap_voiced, ap_outcomes,
          segment_pitches, time_range,
          ac_sr, ac_len, ac_silent, ac_divided, ac_raised, ac_result,
          note_sign, note_offset, note_number, note, cmp_in, comparison,
          comparison_keys,
          ac_y, caller_y, caller_results,
          cli_options, cli_existing, cli_failed, cli_mode, exit_status,
          cm_files, cm_error, cm_results, cm_pairs, cm_comparisons, cm_file_count, cm_summary,
          self_sr, self_tolerance, detector_sr, detector_hop_length>>

fusionVars == <<freq1, conf1, freq2, freq3, frequencies, fused>>
segmentVars == <<rms, min_duration, voiced_frames, segments>>
contourVars == <<len_y, frame_samples, offsets, raised, contour_start, contour_end,
                 loaded, times, contour_frequencies, confidences, notes,
                 intervals, statistics>>
analyzeVars == <<ap_start, ap_end, offset, duration, ap_error, ap_loaded,
                 ap_method, ap_overall, ap_note, ap_voiced, ap_outcomes,
                 segment_pitches, time_range>>
autocorrVars == <<ac_sr, ac_len, ac_silent, ac_divided, ac_raised, ac_result,
                  ac_y, caller_y>>
noteVars == <<note_sign, note_offset, note_number, note>>
compareVars == <<cmp_in, comparison, comparison_keys, caller_results>>
mainVars == <<cli_options, cli_existing, cli_failed, cli_mode, exit_status>>
multiVars == <<cm_files, cm_error, cm_results, cm_pairs, cm_comparisons, cm_file_count, cm_summary>>
\* the fields of the analyzer and of its detector, assigned by __init__ only
selfVars == <<self_sr, self_tolerance, detector_sr, detector_hop_length>>

\* what a call leaves alone: the variables of the other calls and the fields
\* of self, which no method assigns
exceptFusion == <<segmentVars, contourVars, analyzeVars, autocorrVars,
                  noteVars, compareVars, mainVars, multiVars,
    selfVars>>
exceptSegments == <<fusionVars, contourVars, analyzeVars, autocorrVars,
                    noteVars, compareVars, mainVars, multiVars,
    selfVars>>
exceptContour == <<fusionVars, segmentVars, analyzeVars, autocorrVars,
                   noteVars, compareVars, mainVars, multiVars,
    selfVars>>
exceptAnalyze == <<fusionVars, segmentVars, contourVars, autocorrVars,
                   noteVars, compareVars, mainVars, multiVars,
    selfVars>>
exceptAutocorr == <<fusionVars, segmentVars, contourVars, analyzeVars,
                    noteVars, compareVars, mainVars, multiVars,
    selfVars>>
exceptNote == <<fusionVars, segmentVars, contourVars, analyzeVars,
                autocorrVars, compareVars, mainVars, multiVars,
    selfVars>>
exceptCompare == <<fusionVars, segmentVars, contourVars, analyzeVars,
                   autocorrVars, noteVars, mainVars, multiVars,
    selfVars>>
exceptMain == <<fusionVars, segmentVars, contourVars, analyzeVars,
    autocorrVars, noteVars, compareVars, multiVars,
    selfVars>>
exceptMulti == <<fusionVars, segmentVars, contourVars, analyzeVars,
    autocorrVars, noteVars, compareVars, mainVars, selfVars>>

\* ------------------------------------------------------------ arithmetic
RECURSIVE GCD(_, _)
GCD(a, b) == IF b = 0 THEN a ELSE GCD(b, a % b)

\* the rational n/d (d > 0, n >= 0) in lowest terms
Ratio(n, d) == LET g == GCD(n, d) IN <<n \div g, d \div g>>

RECURSIVE SumSeq(_)
SumSeq(s) == IF s = <<>> THEN 0 ELSE Head(s) + SumSeq(Tail(s))

\* ------------------------------------------------------------ estimators
\* detect_fundamental_frequency returns (0.0, 0.0) when no frame has a pitch,
\* otherwise a weighted frequency > 0 with the mean magnitude as confidence
PiptrackResults == {<<0, 0>>} \cup (PosFreqs \X ConfValues)
\* the same reports with the mean magnitude allowed to be 0 as well
AnyConfValues == {0} \cup ConfValues
AnyPiptrackResults == {<<0, 0>>} \cup (PosFreqs \X AnyConfValues)
\* detect_pitch_yin returns 0.0 or the median of the positive f0 values
YinResults == FreqValues
\* autocorrelation_pitch returns 0.0 or sr / period
AutocorrResults == FreqValues

\* ---------------------------------------------------------------- fusion
\* mutant: the filter keeps a frequency of 0
CollectNonNegative(f1, c1, f2, f3) ==
    (IF f1 >= 0 THEN <<<<f1, c1>>>> ELSE <<>>)
    \o (IF f2 >= 0 THEN <<<<f2, YinWeight>>>> ELSE <<>>)
    \o (IF f3 >= 0 THEN <<<<f3, AutocorrWeight>>>> ELSE <<>>)

\* mutant: the weights of YIN and autocorrelation are swapped
CollectSwappedWeights(f1, c1, f2, f3) ==
    (IF f1 > 0 THEN <<<<f1, c1>>>> ELSE <<>>)
    \o (IF f2 > 0 THEN <<<<f2, AutocorrWeight>>>> ELSE <<>>)
    \o (IF f3 > 0 THEN <<<<f3, YinWeight>>>> ELSE <<>>)

\* lines 155-162: the valid results, in the order piptrack, YIN, autocorr
CollectValid(f1, c1, f2, f3) ==
    (IF f1 > 0 THEN <<<<f1, c1>>>> ELSE <<>>)
    \o (IF f2 > 0 THEN <<<<f2, YinWeight>>>> ELSE <<>>)
    \o (IF f3 > 0 THEN <<<<f3, AutocorrWeight>>>> ELSE <<>>)

Freqs(fs) == [i \in 1..Len(fs) |-> fs[i][1]]
Confs(fs) == [i \in 1..Len(fs) |-> fs[i][2]]

\* mutant: the comparison is freq_std <= 10
StdAtMostThreshold(freqs) ==
    LET n == Len(freqs)
        s == SumSeq(freqs)
        q == SumSeq([i \in 1..n |-> freqs[i] * freqs[i]])
    IN n * q - s * s <= ConsistencyThreshold * ConsistencyThreshold * n * n

\* np.std(freqs) < 10, squared and multiplied by n^2:
\* n * sum(f^2) - sum(f)^2 < 100 * n^2
StdBelowThreshold(freqs) ==
    LET n == Len(freqs)
        s == SumSeq(freqs)
        q == SumSeq([i \in 1..n |-> freqs[i] * freqs[i]])
    IN n * q - s * s < ConsistencyThreshold * ConsistencyThreshold * n * n

\* mutant: the weighted sum is divided by the number of results
WeightedSumOverCount(freqs, confs) ==
    Ratio(SumSeq([i \in 1..Len(freqs) |-> freqs[i] * confs[i]]), Len(freqs))

\* np.average(freqs, weights=confs)
WeightedAverage(freqs, confs) ==
    Ratio(SumSeq([i \in 1..Len(freqs) |-> freqs[i] * confs[i]]), SumSeq(confs))

\* mutant: the sum of the weights in place of their mean
SumOfWeights(confs) == Ratio(SumSeq(confs), 1)

\* np.mean(confs)
Mean(confs) == Ratio(SumSeq(confs), Len(confs))

\* mutant: np.argmin in place of np.argmax
ArgMin(confs) ==
    CHOOSE i \in 1..Len(confs) :
        /\ \A j \in 1..Len(confs) : confs[j] >= confs[i]
        /\ \A j \in 1..(i - 1) : confs[j] > confs[i]

\* np.argmax(confs): the first index holding the maximum
ArgMax(confs) ==
    CHOOSE i \in 1..Len(confs) :
        /\ \A j \in 1..Len(confs) : confs[j] <= confs[i]
        /\ \A j \in 1..(i - 1) : confs[j] < confs[i]

Pair(f, c) == [freq |-> Ratio(f, 1), conf |-> Ratio(c, 1)]

\* mutant: on disagreement the first collected result is returned
FuseFirstOnDisagreement(fs) ==
    IF fs = <<>> THEN Pair(0, 0)
    ELSE IF Len(fs) = 1 THEN Pair(fs[1][1], fs[1][2])
    ELSE IF StdBelowThreshold(Freqs(fs))
         THEN [freq |-> WeightedAverage(Freqs(fs), Confs(fs)),
               conf |-> Mean(Confs(fs))]
         ELSE Pair(fs[1][1], fs[1][2])

\* lines 164-185
FuseResults(fs) ==
    IF fs = <<>> THEN Pair(0, 0)
    ELSE IF Len(fs) = 1 THEN Pair(fs[1][1], fs[1][2])
    ELSE IF StdBelowThreshold(Freqs(fs))
         THEN [freq |-> WeightedAverage(Freqs(fs), Confs(fs)),
               conf |-> Mean(Confs(fs))]
         ELSE LET k == ArgMax(Confs(fs)) IN Pair(fs[k][1], fs[k][2])

\* ------------------------------------------------------- voiced segments
\* start_time = None
None == -1

\* librosa.frames_to_time(i, sr, hop_length) * sr, for the 0-based frame i
FrameTime(i) == i * hop_length

\* mutant: the comparison is rms >= energy_threshold
VoicedFramesAtLeast(r) ==
    [i \in 1..Len(r) |-> r[i] * EnergyFactorInv * Len(r) >= SumSeq(r)]

\* rms > np.mean(rms) * 0.1, multiplied by 10 * len(rms)
VoicedFrames(r) ==
    [i \in 1..Len(r) |-> r[i] * EnergyFactorInv * Len(r) > SumSeq(r)]

\* lines 231-232 and 238-239: keep the candidate when it is long enough
KeepIfLong(segs, start_time, end_time, d) ==
    IF end_time - start_time >= d
    THEN Append(segs, <<start_time, end_time>>) ELSE segs

\* end_time of the run still open after the last frame (line 237):
\* frame_times[-1]
LastRunEnd(v) == FrameTime(Len(v) - 1)

\* lines 223-241: the loop over the frames, from the 0-based frame i on
RECURSIVE ScanFrames(_, _, _, _, _)
ScanFrames(v, d, i, start_time, segs) ==
    IF i = Len(v)
    THEN IF start_time # None
         THEN KeepIfLong(segs, start_time, LastRunEnd(v), d)
         ELSE segs
    ELSE IF v[i + 1] /\ start_time = None
         THEN ScanFrames(v, d, i + 1, FrameTime(i), segs)
    ELSE IF ~v[i + 1] /\ start_time # None
         THEN ScanFrames(v, d, i + 1, None,
                         KeepIfLong(segs, start_time, FrameTime(i), d))
    ELSE ScanFrames(v, d, i + 1, start_time, segs)

\* ------------------------------------------------------- note conversion
\* A positive frequency f enters the conversion as h = 24 * log2(f / 440),
\* its distance from A4 in half semitones, so 12 * log2(f / 440) = h / 2 and
\* an odd h is an offset exactly halfway between two semitones.

\* log2(a / b) for a / b a power of two
RECURSIVE Log2Ratio(_, _)
Log2Ratio(a, b) ==
    IF a = b THEN 0
    ELSE IF a > b THEN 1 + Log2Ratio(a, 2 * b)
    ELSE Log2Ratio(2 * a, b) - 1

\* 12 * log2(f / A4_freq) in quarters of a semitone, for f on the octave
\* grid of A4
QuarterSteps(f) == 48 * Log2Ratio(f, A4_freq)

\* Python round(k / 4): to the nearest integer, a tie to the even one
RoundQuarters(k) ==
    LET q == k \div 4
        r == k % 4
    IN  IF r < 2 THEN q
        ELSE IF r > 2 THEN q + 1
        ELSE IF q % 2 = 0 THEN q ELSE q + 1

\* mutant: the offset is rounded before A4_note_number is added
NoteNumberOffsetRounded(x) == A4_note_number + RoundQuarters(x)

\* line 205: round(12 * np.log2(frequency / A4_freq) + A4_note_number), for
\* the offset 12 * log2(frequency / A4_freq) = x / 4
NoteNumber(x) == RoundQuarters(x + 4 * A4_note_number)

note_names == <<"C", "C#", "D", "D#", "E", "F", "F#", "G", "G#", "A", "A#", "B">>

\* a label: f"{note_name}{octave}" is name followed by octave; the labels
\* "Unknown" and "Silent" carry no octave
Label(name, octave) == [name |-> name, octave |-> octave]
Unknown == Label("Unknown", 0)
Silent == Label("Silent", 0)

\* mutant: the octave is the floor of note_number / 12
NoteOfOctaveFromZero(n) == Label(note_names[(n % 12) + 1], n \div 12)

\* lines 209-212, for the note number n
NoteOf(n) == Label(note_names[(n % 12) + 1], (n - 12) \div 12)

\* frequency_to_note for a frequency of sign sgn and, when positive, of
\* distance x quarters of a semitone from A4
FrequencyToNote(sgn, x) ==
    IF sgn <= 0 THEN Unknown ELSE NoteOf(NoteNumber(x))

\* --------------------------------------------------------------- contour
\* not-a-number, the value np.mean gives for an empty list: 0 / 0
NaN == <<0, 0>>

\* np.mean of a list that may be empty
MeanOrNaN(xs) == IF xs = <<>> THEN NaN ELSE Mean(xs)

RECURSIVE MaxSeq(_)
MaxSeq(xs) ==
    IF Len(xs) = 1 THEN xs[1]
    ELSE LET m == MaxSeq(Tail(xs)) IN IF xs[1] >= m THEN xs[1] ELSE m

RECURSIVE MinSeq(_)
MinSeq(xs) ==
    IF Len(xs) = 1 THEN xs[1]
    ELSE LET m == MinSeq(Tail(xs)) IN IF xs[1] <= m THEN xs[1] ELSE m

\* [f for f in frequencies if f > 0]
RECURSIVE Positive(_)
Positive(fs) ==
    IF fs = <<>> THEN <<>>
    ELSE (IF Head(fs) > 0 THEN <<Head(fs)>> ELSE <<>>) \o Positive(Tail(fs))

\* lines 410-411: (start_time + (i + frame_samples // 2) / sr) * sr
TimePoint(start, i, fsamp) == start * self_sr + i + fsamp \div 2

\* mutant: every frame is labelled by frequency_to_note
ContourNoteNoSentinel(freq) ==
    IF freq > 0 THEN FrequencyToNote(1, QuarterSteps(freq))
    ELSE FrequencyToNote(0, 0)

\* lines 420-424
ContourNote(freq) ==
    IF freq > 0 THEN FrequencyToNote(1, QuarterSteps(freq)) ELSE Silent

\* mutant: the reference is the previous frame
IntervalFromPrevious(fs, i) ==
    IF i = 1 \/ fs[i] <= 0 \/ fs[i - 1] <= 0 THEN 0
    ELSE 12 * Log2Ratio(fs[i], fs[i - 1])

\* mutant: the reference is the first frame with a frequency > 0
IntervalFromFirstVoiced(fs, i) ==
    LET k == CHOOSE j \in 1..i : fs[j] > 0 /\ \A m \in 1..(j - 1) : fs[m] <= 0
    IN IF fs[i] <= 0 THEN 0 ELSE 12 * Log2Ratio(fs[i], fs[k])

\* lines 427-433: the interval of frame i (1-based) in semitones
IntervalOf(fs, i) ==
    IF i = 1 \/ fs[i] <= 0 \/ fs[1] <= 0 THEN 0
    ELSE 12 * Log2Ratio(fs[i], fs[1])

\* lines 450-456
Statistics(fs, cs, ivs) ==
    [avg_frequency |-> MeanOrNaN(Positive(fs)),
     max_interval |-> IF ivs # <<>> THEN MaxSeq(ivs) ELSE 0,
     min_interval |-> IF ivs # <<>> THEN MinSeq(ivs) ELSE 0,
     interval_range |-> IF ivs # <<>> THEN MaxSeq(ivs) - MinSeq(ivs) ELSE 0,
     avg_confidence |-> MeanOrNaN(cs)]

NoStatistics == [avg_frequency |-> NaN, max_interval |-> 0, min_interval |-> 0,
                 interval_range |-> 0, avg_confidence |-> NaN]

\* hop_samples = frame_samples // 2
HopSamples(fsamp) == fsamp \div 2

\* list(range(start, stop, step)) for step > 0
RECURSIVE Range(_, _, _)
Range(start, stop, step) ==
    IF start >= stop THEN <<>>
    ELSE <<start>> \o Range(start + step, stop, step)

\* ----------------------------------------------------------------- state
IdleFusion ==
    /\ freq1 = 0 /\ conf1 = 0 /\ freq2 = 0 /\ freq3 = 0
    /\ frequencies = <<>> /\ fused = Pair(0, 0)

IdleSegments ==
    /\ rms = <<>> /\ min_duration = 0 /\ voiced_frames = <<>> /\ segments = <<>>

IdleContour ==
    /\ len_y = 0 /\ frame_samples = 0 /\ offsets = <<>> /\ raised = FALSE
    /\ contour_start = 0 /\ contour_end = 0 /\ loaded = FALSE
    /\ times = <<>> /\ contour_frequencies = <<>> /\ confidences = <<>>
    /\ notes = <<>> /\ intervals = <<>> /\ statistics = NoStatistics

\* a start_time or end_time as the result dict holds it: None, the
\* argument of the call, or a time of a voiced segment
NoTime == <<"none", 0>>
ArgumentTime(t) == <<"argument", t>>
SegmentTime(t) == <<"segment", t>>

IdleAnalyze ==
    /\ ap_start = <<>> /\ ap_end = <<>> /\ offset = 0 /\ duration = <<>>
    /\ ap_error = "none" /\ ap_loaded = FALSE
    /\ ap_method = "multi" /\ ap_overall = Pair(0, 0) /\ ap_note = Unknown
    /\ ap_voiced = <<>> /\ ap_outcomes = <<>> /\ segment_pitches = <<>>
    /\ time_range = <<NoTime, NoTime>>

\* a sample buffer, by its length and its largest absolute sample
Buffer(n, peak) == [len |-> n, peak |-> peak]

IdleAutocorr ==
    /\ ac_sr = 0 /\ ac_len = 0 /\ ac_silent = FALSE /\ ac_divided = FALSE
    /\ ac_raised = FALSE /\ ac_result = <<0, 1>>
    /\ ac_y = Buffer(0, 0) /\ caller_y = Buffer(0, 0)

IdleNote ==
    /\ note_sign = 0 /\ note_offset = 0 /\ note_number = 0 /\ note = Unknown

NoComparison ==
    [is_same_pitch |-> FALSE, confidence |-> <<0, 1>>,
     frequency_difference |-> 0, relative_error |-> <<0, 1>>]

IdleCompare ==
    /\ cmp_in = [freq1 |-> 0, freq2 |-> 0, conf1 |-> 0, conf2 |-> 0,
                 tolerance |-> 5]
    /\ comparison = NoComparison /\ comparison_keys = {}
    /\ caller_results = cmp_in

\* AudioPitchAnalyzer.__init__(sr, tolerance), which constructs
\* PitchDetector(sr=sr) with the default hop_length
Constructed ==
    \E c \in Configurations :
        /\ c[1] \in SampleRates /\ c[2] \in Tolerances
        /\ self_sr = c[1] /\ self_tolerance = c[2]
        /\ detector_sr = c[1] /\ detector_hop_length = hop_length

IdleMain ==
    /\ cli_options = {} /\ cli_existing = 0 /\ cli_failed = FALSE
    /\ cli_mode = "none" /\ exit_status = 0

IdleMulti ==
    /\ cm_files = <<>> /\ cm_error = "none" /\ cm_results = <<>>
    /\ cm_pairs = <<>> /\ cm_comparisons = <<>> /\ cm_file_count = 0
    /\ cm_summary = [same_pitch_pairs |-> 0, total_pairs |-> 0,
                     same_pitch_ratio |-> <<0, 1>>]

Init ==
    /\ op = "idle"
    /\ Constructed
    /\ IdleMulti
    /\ IdleMain
    /\ IdleFusion
    /\ IdleSegments
    /\ IdleContour
    /\ IdleAnalyze
    /\ IdleAutocorr
    /\ IdleNote
    /\ IdleCompare

\* PitchDetector.detect_pitch_multi_method(y): the three estimators run on y
\* (their results are the inputs of the model), then lines 155-185
RunMethods(r1, r2, r3) ==
    /\ op' = "fusion"
    /\ freq1' = r1[1] /\ conf1' = r1[2]
    /\ freq2' = r2
    /\ freq3' = r3
    /\ frequencies' = CollectValid(r1[1], r1[2], r2, r3)
    /\ fused' = FuseResults(frequencies')
    /\ UNCHANGED exceptFusion

DetectPitchMultiMethod ==
    /\ op = "idle"
    /\ \E r1 \in PiptrackResults, r2 \in YinResults, r3 \in AutocorrResults :
           RunMethods(r1, r2, r3)

\* the fusion applied to every spectral-peak report with a confidence >= 0
DetectPitchAnyConfidence ==
    /\ op = "idle"
    /\ \E r1 \in AnyPiptrackResults, r2 \in YinResults,
          r3 \in AutocorrResults :
           RunMethods(r1, r2, r3)

\* AudioUtils.find_voiced_segments(y, sr, min_duration); the RMS energies of
\* the frames of y are the input of the model
FindVoicedSegments ==
    /\ op = "idle"
    /\ \E n \in 1..MaxFrames :
         \E r \in [1..n -> RmsLevels], d \in MinDurations :
           /\ op' = "segments"
           /\ rms' = r
           /\ min_duration' = d
           /\ voiced_frames' = VoicedFrames(r)
           /\ segments' = ScanFrames(voiced_frames', d, 0, None, <<>>)
           /\ UNCHANGED exceptSegments

\* the contour call ends without a result: nothing was framed or estimated
NoContourResult ==
    /\ offsets' = <<>> /\ times' = <<>> /\ contour_frequencies' = <<>>
    /\ confidences' = <<>> /\ notes' = <<>> /\ intervals' = <<>>
    /\ statistics' = NoStatistics

\* mutant: the range is tested after load_audio
ContourRejectedAfterLoad(supported, range) ==
    /\ ~supported \/ range[1] >= range[2]
    /\ raised' = TRUE /\ loaded' = supported
    /\ len_y' = 0 /\ frame_samples' = 0
    /\ NoContourResult

\* lines 380-384: unsupported format or start_time >= end_time raises
\* ValueError before load_audio is called
ContourRejected(supported, range) ==
    /\ ~supported \/ range[1] >= range[2]
    /\ raised' = TRUE /\ loaded' = FALSE
    /\ len_y' = 0 /\ frame_samples' = 0
    /\ NoContourResult

\* lines 386-406 with hop_samples = 0: range() raises ValueError after the
\* audio was loaded
ContourZeroHop(supported, range, n, fsamp) ==
    /\ supported /\ range[1] < range[2]
    /\ HopSamples(fsamp) = 0
    /\ raised' = TRUE /\ loaded' = TRUE
    /\ len_y' = n /\ frame_samples' = fsamp
    /\ NoContourResult

\* lines 386-457: the frame loop, the interval loop and the statistics; the
\* spectral-peak estimate of each frame is an input of the model
ContourAnalyzed(supported, range, n, fsamp) ==
    /\ supported /\ range[1] < range[2]
    /\ HopSamples(fsamp) > 0
    /\ raised' = FALSE /\ loaded' = TRUE
    /\ len_y' = n /\ frame_samples' = fsamp
    /\ offsets' = Range(0, n - fsamp, HopSamples(fsamp))
    /\ \E est \in [1..Len(offsets') -> FrameResults] :
          /\ times' = [k \in 1..Len(offsets') |->
                         TimePoint(range[1], offsets'[k], fsamp)]
          /\ contour_frequencies' = [k \in 1..Len(offsets') |-> est[k][1]]
          /\ confidences' = [k \in 1..Len(offsets') |-> est[k][2]]
          /\ notes' = [k \in 1..Len(offsets') |-> ContourNote(est[k][1])]
    /\ intervals' = [k \in 1..Len(offsets') |->
                        IntervalOf(contour_frequencies', k)]
    /\ statistics' = Statistics(contour_frequencies', confidences', intervals')

\* AudioPitchAnalyzer.analyze_pitch_contour(file_path, start_time, end_time,
\* frame_size)
AnalyzePitchContour ==
    /\ op = "idle"
    /\ \E supported \in BOOLEAN, range \in TimeRanges,
          n \in 0..MaxLen, fsamp \in 0..MaxFrameSamples :
           /\ op' = "contour"
           /\ contour_start' = range[1] /\ contour_end' = range[2]
           /\ \/ ContourRejected(supported, range)
              \/ ContourZeroHop(supported, range, n, fsamp)
              \/ ContourAnalyzed(supported, range, n, fsamp)
           /\ UNCHANGED exceptContour

\* lines 50-53: duration = end_seconds - offset if offset > 0, else
\* end_seconds
DurationOf(off, e) == IF off > 0 THEN e - off ELSE e

\* lines 45-46
OffsetOf(st) == IF st # <<>> THEN st[1] ELSE 0

\* lines 77-89: the method names with a branch
KnownMethods == {"multi", "piptrack", "yin", "autocorr"}

\* lines 84 and 87: the confidence given to a YIN and to an autocorrelation
\* frequency > 0, in tenths
YinConfidence == 8
AutocorrConfidence == 6

\* mutant: a YIN frequency keeps confidence 0.8 also when it is 0
OverallPitchFixedConfidence(method, r1, f2, f3) ==
    IF method = "multi" THEN FuseResults(CollectValid(r1[1], r1[2], f2, f3))
    ELSE IF method = "piptrack" THEN Pair(r1[1], r1[2])
    ELSE IF method = "yin" THEN Pair(f2, 8)
    ELSE Pair(f3, 6)

\* lines 77-87: frequency and confidence of the clip, from what the three
\* estimators return for it: r1 (piptrack), f2 (YIN), f3 (autocorrelation)
OverallPitch(method, r1, f2, f3) ==
    IF method = "multi" THEN FuseResults(CollectValid(r1[1], r1[2], f2, f3))
    ELSE IF method = "piptrack" THEN Pair(r1[1], r1[2])
    ELSE IF method = "yin"
    THEN Pair(f2, IF f2 > 0 THEN YinConfidence ELSE 0)
    ELSE Pair(f3, IF f3 > 0 THEN AutocorrConfidence ELSE 0)

\* the estimator results the method does not use are not computed
Unused(method, r1, f2, f3) ==
    /\ method \notin {"multi", "piptrack"} => r1 = <<0, 0>>
    /\ method \notin {"multi", "yin"} => f2 = 0
    /\ method \notin {"multi", "autocorr"} => f3 = 0

\* frequency_to_note of a frequency on the octave grid of A4, or of 0
NoteOfFrequency(f) ==
    IF f > 0 THEN FrequencyToNote(1, QuarterSteps(f)) ELSE FrequencyToNote(0, 0)

\* line 99: voiced_segments[:5]
SegmentLimit == 5
FirstFive(segs) ==
    SubSeq(segs, 1, IF Len(segs) < SegmentLimit THEN Len(segs)
                    ELSE SegmentLimit)

\* the k-th voiced segment, as (start, end) in hops
Segment(k) == <<2 * k - 1, 2 * k>>

\* mutant: every segment that did not raise is appended
AppendsAlways(outcome) == outcome # "raises"

\* lines 102-104: an entry is appended when the segment is longer than 50 ms
\* and its fused frequency is > 0
Appends(outcome) == outcome = "pitched"

\* lines 105-111, for a segment whose fusion returned r
SegmentEntry(seg, r) ==
    [start_time |-> seg[1], end_time |-> seg[2], frequency |-> r[1],
     confidence |-> r[2], note |-> NoteOfFrequency(r[1])]

\* the fusion result of a segment with the given outcome
SegmentResult(outcome) ==
    IF outcome = "pitched" THEN <<2 * A4_freq, 6>> ELSE <<0, 0>>

\* lines 98-113: the loop, from the k-th of the segments on; the loop header
\* binds start_time and end_time, an exception (extract_audio_segment or an
\* estimator raising) is caught and the loop goes on
RECURSIVE SegmentLoop(_, _, _, _, _, _)
SegmentLoop(segs, outcomes, k, start_time, end_time, pitches) ==
    IF k > Len(segs)
    THEN [start_time |-> start_time, end_time |-> end_time,
          segment_pitches |-> pitches]
    ELSE SegmentLoop(segs, outcomes, k + 1,
                     SegmentTime(segs[k][1]), SegmentTime(segs[k][2]),
                     IF Appends(outcomes[k])
                     THEN Append(pitches,
                                 SegmentEntry(segs[k],
                                              SegmentResult(outcomes[k])))
                     ELSE pitches)

\* the call raised before a result was built
NoAnalysis ==
    /\ ap_overall' = Pair(0, 0) /\ ap_note' = Unknown /\ ap_voiced' = <<>>
    /\ ap_outcomes' = <<>> /\ segment_pitches' = <<>>
    /\ time_range' = <<NoTime, NoTime>>

\* AudioPitchAnalyzer.analyze_pitch: the format test, the time range, the
\* call of load_audio, the estimator of the method, the loop over the voiced
\* segments and the result dict. The parsed times, the estimator's return
\* value, the number of voiced segments and what happens to each analyzed
\* segment are the inputs.
AnalyzePitch ==
    /\ op = "idle"
    /\ \E supported \in BOOLEAN, st \in StartTimes, e \in EndTimes,
          method \in MethodArguments, r1 \in DetectedPitches,
          f2 \in YinPitches, f3 \in AutocorrPitches,
          n \in 0 .. MaxSegments :
         \E outcomes \in [1 .. Len(FirstFive([k \in 1 .. n |-> k]))
                            -> SegmentOutcomes] :
           /\ op' = "analyze"
           /\ ap_start' = st /\ ap_end' = e /\ ap_method' = method
           /\ IF ~supported
              THEN /\ ap_error' = "format" /\ ap_loaded' = FALSE
                   /\ offset' = 0 /\ duration' = <<>>
                   /\ method = "multi" /\ Unused("none", r1, f2, f3) /\ n = 0
                   /\ NoAnalysis
              ELSE /\ offset' = OffsetOf(st)
                   /\ duration' = IF e # <<>>
                                   THEN <<DurationOf(OffsetOf(st), e[1])>>
                                   ELSE <<>>
                   /\ ap_loaded' = ~(duration' # <<>> /\ duration'[1] <= 0)
                   /\ IF ~ap_loaded'
                      THEN /\ ap_error' = "range"
                           /\ method = "multi" /\ Unused("none", r1, f2, f3) /\ n = 0
                           /\ NoAnalysis
                      ELSE IF method \notin KnownMethods
                      THEN /\ ap_error' = "method"
                           /\ Unused("none", r1, f2, f3) /\ n = 0
                           /\ NoAnalysis
                      ELSE /\ ap_error' = "none"
                           /\ Unused(method, r1, f2, f3)
                           /\ ap_overall' = OverallPitch(method, r1, f2, f3)
                           /\ ap_note' = NoteOfFrequency(ap_overall'.freq[1])
                           /\ ap_voiced' = [k \in 1 .. n |-> Segment(k)]
                           /\ ap_outcomes' = outcomes
                           /\ LET loop ==
                                    SegmentLoop(FirstFive(ap_voiced'), outcomes,
                                        1,
                                        IF st = <<>> THEN NoTime
                                        ELSE ArgumentTime(st[1]),
                                        IF e = <<>> THEN NoTime
                                        ELSE ArgumentTime(e[1]),
                                        <<>>)
                              IN  /\ segment_pitches' = loop.segment_pitches
                                  /\ time_range' =
                                         <<loop.start_time, loop.end_time>>
           /\ UNCHANGED exceptAnalyze

\* lines 113-114: int(self.sr / 2000) and int(self.sr / 80)
min_period(sr) == sr \div 2000
max_period(sr) == sr \div 80

\* lines 120-123: find_peaks on correlation[min_period:max_period] returns
\* interior local maxima of the slice, so slice indices 1 .. length - 2
PeakIndices(sr) == 1 .. (max_period(sr) - min_period(sr) - 2)

\* PitchDetector.autocorrelation_pitch. The strongest peak of the
\* correlation is an input: 0 for no peak, else its index in the slice.
\* Line 106 divides by np.max(np.abs(y)) untested: np.max raises on an empty
\* buffer, and a silent buffer is divided by 0, which makes every sample
\* NaN, and NaN passes no peak test.
\* the peaks find_peaks can report: none (0) when the call returns before
\* line 120 or the buffer is NaN, else none or any index of the slice
PeakChoices(sr, n, silent) ==
    IF n = 0 \/ max_period(sr) >= n \/ silent
    THEN {0} ELSE {0} \cup PeakIndices(sr)

\* line 106, y / np.max(np.abs(y)): a new array with peak 1, or all NaN
\* (peak -1 here) when the buffer is silent
Normalized(y) == Buffer(y.len, IF y.peak = 0 THEN -1 ELSE 1)

\* mutant: line 106 as the in-place y /= np.max(np.abs(y))
CallerBufferNormalizedInPlace(y) == IF y.len = 0 THEN y ELSE Normalized(y)

\* the caller's array after the call: line 106 binds the local name y to
\* the new array and no line stores into the argument
CallerBufferAfter(y) == y

AutocorrelationPitch ==
    /\ op = "idle"
    /\ \E n \in BufferLengths, amp \in PeakAmplitudes :
         LET sr == detector_sr
             silent == amp = 0
         IN
         \E peak \in PeakChoices(sr, n, silent) :
           /\ op' = "autocorr"
           /\ ac_sr' = sr /\ ac_len' = n /\ ac_silent' = silent
           /\ ac_y' = Buffer(n, amp)
           /\ caller_y' = CallerBufferAfter(Buffer(n, amp))
           /\ ac_raised' = (n = 0)
           /\ ac_divided' = (n > 0 /\ silent)
           /\ ac_result' = IF n = 0 \/ max_period(sr) >= n \/ silent \/ peak = 0
                            THEN <<0, 1>>
                            ELSE Ratio(sr, peak + min_period(sr))
           /\ UNCHANGED exceptAutocorr

\* PitchDetector.frequency_to_note, lines 200-212; note_number is assigned
\* only past the early return of line 200
FrequencyToNoteCall ==
    /\ op = "idle"
    /\ \E sgn \in {-1, 0, 1}, x \in -MaxOffset .. MaxOffset :
           /\ op' = "note"
           /\ note_sign' = sgn /\ note_offset' = x
           /\ note_number' = IF sgn <= 0 THEN 0 ELSE NoteNumber(x)
           /\ note' = FrequencyToNote(sgn, x)
           /\ UNCHANGED exceptNote

\* float('inf')
Inf == <<1, 0>>

Abs(x) == IF x < 0 THEN -x ELSE x
Max2(a, b) == IF a >= b THEN a ELSE b
Min2(a, b) == IF a <= b THEN a ELSE b

\* mutant: the error is relative to the first frequency
RelativeErrorOfFirst(f1, f2) == <<Abs(f1 - f2), f1>>

\* lines 172-173: freq_diff / max(freq1, freq2), as numerator and
\* denominator
RelativeError(f1, f2) == <<Abs(f1 - f2), Max2(f1, f2)>>

\* AudioPitchAnalyzer.compare_pitches, lines 154-202: the keys
\* is_same_pitch, confidence, frequency_difference and relative_error of
\* the returned dict; tol is self.tolerance in hundredths
ComparePitches(f1, f2, c1, c2, tol) ==
    IF f1 <= 0 \/ f2 <= 0
    THEN [is_same_pitch |-> FALSE, confidence |-> <<0, 1>>,
          frequency_difference |-> Abs(f1 - f2), relative_error |-> Inf]
    ELSE LET e == RelativeError(f1, f2)
         IN  [is_same_pitch |-> 100 * e[1] <= tol * e[2],
              confidence |-> Ratio(Min2(c1, c2) * (e[2] - e[1]), e[2]),
              frequency_difference |-> Abs(f1 - f2),
              relative_error |-> Ratio(e[1], e[2])]

\* lines 161-169: the keys of the dict returned when a frequency is <= 0
InvalidKeys ==
    {"is_same_pitch", "confidence", "frequency_difference",
     "relative_error", "note1", "note2", "reason"}

\* lines 189-202: the keys of the dict returned otherwise
ValidKeys ==
    {"is_same_pitch", "same_note", "confidence", "frequency1", "frequency2",
     "frequency_difference", "relative_error", "tolerance", "note1", "note2",
     "segment_similarity", "files"}

ComparisonKeys(f1, f2) == IF f1 <= 0 \/ f2 <= 0 THEN InvalidKeys ELSE ValidKeys

\* main.py lines 42-73: the keys print_comparison_result subscripts
PrintReads ==
    {"files", "frequency1", "note1", "frequency2", "note2",
     "frequency_difference", "relative_error", "is_same_pitch", "tolerance",
     "same_note", "confidence", "segment_similarity"}

\* main.py lines 250-257: the keys the verbose output of main subscripts in
\* each pairwise comparison
VerboseReads ==
    {"files", "is_same_pitch", "frequency1", "frequency2", "relative_error"}

\* lines 351-352: the keys the summary of compare_multiple_files subscripts
SummaryReads == {"is_same_pitch", "confidence"}

ComparePitchesCall ==
    /\ op = "idle"
    /\ \E f1 \in OverallFreqs, f2 \in OverallFreqs, c1 \in OverallConfs,
          c2 \in OverallConfs :
         LET tol == self_tolerance IN
           /\ op' = "compare"
           /\ cmp_in' = [freq1 |-> f1, freq2 |-> f2, conf1 |-> c1, conf2 |-> c2,
                         tolerance |-> tol]
           /\ comparison' = ComparePitches(f1, f2, c1, c2, tol)
           /\ comparison_keys' = ComparisonKeys(f1, f2)
           /\ caller_results' = cmp_in'
           /\ UNCHANGED exceptCompare

\* main.py, lines 95-152: the options the parser declares
DeclaredOptions ==
    {"--tolerance", "--method", "--sample-rate", "--start-time",
     "--end-time", "--verbose", "--analyze-only", "--visualize"}

\* main(): parse_args (line 152) ends the process with status 2 on an
\* option the parser does not declare; no existing file ends it with
\* status 1 (lines 162-164); the analysis mode catches the error of each
\* file and goes on (lines 180-192); the two comparison modes end with
\* status 1 on an error (lines 218-220, 259-261)
Main ==
    /\ op = "idle"
    /\ \E opts \in SUBSET CliOptions, existing \in 0 .. MaxFiles,
          failed \in BOOLEAN :
           /\ op' = "main"
           /\ cli_options' = opts /\ cli_existing' = existing
           /\ cli_failed' = failed
           /\ IF ~(opts \subseteq DeclaredOptions)
              THEN cli_mode' = "usage" /\ exit_status' = 2
              ELSE IF existing = 0
              THEN cli_mode' = "none" /\ exit_status' = 1
              ELSE IF "--analyze-only" \in opts \/ existing = 1
              THEN cli_mode' = "analyze" /\ exit_status' = 0
              ELSE IF existing = 2
              THEN /\ cli_mode' = "compare"
                   /\ exit_status' = IF failed THEN 1 ELSE 0
              ELSE /\ cli_mode' = "multi"
                   /\ exit_status' = IF failed THEN 1 ELSE 0
           /\ UNCHANGED exceptMain

\* lines 331-338: the results of the files whose analysis did not raise, in
\* the order of file_paths
Succeeded(file) == ~file.raised

\* mutant: the inner loop starts at i
FirstPartnerSelf(i) == i

\* line 347: range(i + 1, len(results)), 1-based
FirstPartner(i) == i + 1

\* lines 345-349: the index pairs in the order the two loops visit them,
\* from the pair (i, j) on
RECURSIVE PairsFrom(_, _, _)
PairsFrom(i, j, n) ==
    IF i > n THEN <<>>
    ELSE IF j > n THEN PairsFrom(i + 1, FirstPartner(i + 1), n)
    ELSE <<<<i, j>>>> \o PairsFrom(i, j + 1, n)

\* lines 351-363: the summary over the comparisons, but for its
\* average_confidence
Summary(comparisons) ==
    LET same == Cardinality({k \in 1 .. Len(comparisons) :
                                comparisons[k].is_same_pitch})
    IN  [same_pitch_pairs |-> same,
         total_pairs |-> Len(comparisons),
         same_pitch_ratio |-> Ratio(same, Len(comparisons))]

NoMultiResult ==
    /\ cm_results' = <<>> /\ cm_pairs' = <<>> /\ cm_comparisons' = <<>>
    /\ cm_file_count' = 0
    /\ cm_summary' = [same_pitch_pairs |-> 0, total_pairs |-> 0,
                      same_pitch_ratio |-> <<0, 1>>]

\* AudioPitchAnalyzer.compare_multiple_files(file_paths); what analyze_pitch
\* does for each path is the input
CompareMultipleFiles ==
    /\ op = "idle"
    /\ \E n \in 0 .. MaxFiles :
         \E files \in [1 .. n -> FileOutcomes] :
           /\ op' = "multi"
           /\ cm_files' = files
           /\ IF n < 2
              THEN cm_error' = "paths" /\ NoMultiResult
              ELSE IF Len(SelectSeq(files, Succeeded)) < 2
              THEN cm_error' = "results" /\ NoMultiResult
              ELSE /\ cm_error' = "none"
                   /\ cm_results' = SelectSeq(files, Succeeded)
                   /\ cm_pairs' = PairsFrom(1, FirstPartner(1),
                                            Len(cm_results'))
                   /\ cm_comparisons' =
                        [k \in 1 .. Len(cm_pairs') |->
                           LET a == cm_results'[cm_pairs'[k][1]]
                               b == cm_results'[cm_pairs'[k][2]]
                           IN  ComparePitches(a.frequency, b.frequency,
                                   a.confidence, b.confidence,
                                   self_tolerance)]
                   /\ cm_file_count' = Len(cm_results')
                   /\ cm_summary' = Summary(cm_comparisons')
           /\ UNCHANGED exceptMulti

\* the call returns (or its exception has propagated): its locals and its
\* result are the caller's to drop, and the next call starts from the state
\* the constructor left
Return ==
    /\ op # "idle"
    /\ op' = "idle"
    /\ freq1' = 0 /\ conf1' = 0 /\ freq2' = 0 /\ freq3' = 0
    /\ frequencies' = <<>> /\ fused' = Pair(0, 0)
    /\ rms' = <<>> /\ min_duration' = 0 /\ voiced_frames' = <<>>
    /\ segments' = <<>>
    /\ len_y' = 0 /\ frame_samples' = 0 /\ offsets' = <<>> /\ raised' = FALSE
    /\ contour_start' = 0 /\ contour_end' = 0 /\ loaded' = FALSE
    /\ times' = <<>> /\ contour_frequencies' = <<>> /\ confidences' = <<>>
    /\ notes' = <<>> /\ intervals' = <<>> /\ statistics' = NoStatistics
    /\ ap_start' = <<>> /\ ap_end' = <<>> /\ offset' = 0 /\ duration' = <<>>
    /\ ap_error' = "none" /\ ap_loaded' = FALSE
    /\ ap_method' = "multi" /\ ap_overall' = Pair(0, 0) /\ ap_note' = Unknown
    /\ ap_voiced' = <<>> /\ ap_outcomes' = <<>> /\ segment_pitches' = <<>>
    /\ time_range' = <<NoTime, NoTime>>
    /\ ac_sr' = 0 /\ ac_len' = 0 /\ ac_silent' = FALSE /\ ac_divided' = FALSE
    /\ ac_raised' = FALSE /\ ac_result' = <<0, 1>>
    /\ ac_y' = Buffer(0, 0) /\ caller_y' = Buffer(0, 0)
    /\ note_sign' = 0 /\ note_offset' = 0 /\ note_number' = 0
    /\ note' = Unknown
    /\ cmp_in' = [freq1 |-> 0, freq2 |-> 0, conf1 |-> 0, conf2 |-> 0,
                  tolerance |-> 5]
    /\ comparison' = NoComparison /\ comparison_keys' = {}
    /\ caller_results' = cmp_in'
    /\ cli_options' = {} /\ cli_existing' = 0 /\ cli_failed' = FALSE
    /\ cli_mode' = "none" /\ exit_status' = 0
    /\ cm_files' = <<>> /\ cm_error' = "none" /\ cm_results' = <<>>
    /\ cm_pairs' = <<>> /\ cm_comparisons' = <<>> /\ cm_file_count' = 0
    /\ cm_summary' = [same_pitch_pairs |-> 0, total_pairs |-> 0,
                      same_pitch_ratio |-> <<0, 1>>]
    /\ UNCHANGED selfVars

Next ==
    \/ Return
    \/ DetectPitchMultiMethod
    \/ FindVoicedSegments
    \/ AnalyzePitchContour
    \/ AutocorrelationPitch
    \/ FrequencyToNoteCall
    \/ ComparePitchesCall
    \/ Main
    \/ CompareMultipleFiles

Spec == Init /\ [][Next]_vars

\* the calls of analyze_pitch on an analyzer constructed with the defaults
DefaultInit == Init /\ self_sr = DefaultSr

AnalysisNext ==
    \/ Return
    \/ AnalyzePitch

FusionNext == Return \/ DetectPitchAnyConfidence
FusionSpec == Init /\ [][FusionNext]_vars

AnalysisSpec == DefaultInit /\ [][AnalysisNext]_vars

\* ================================================================ claims
\* the three estimator reports as the claims name them: 1 spectral peak
\* (own confidence), 2 YIN (0.8), 3 autocorrelation (0.6)
Methods == {1, 2, 3}
InFreq(m) == IF m = 1 THEN freq1 ELSE IF m = 2 THEN freq2 ELSE freq3
InWeight(m) == IF m = 1 THEN conf1 ELSE IF m = 2 THEN 8 ELSE 6
Present == {m \in Methods : InFreq(m) > 0}
InPair(m) == [freq |-> <<InFreq(m), 1>>, conf |-> <<InWeight(m), 1>>]

RECURSIVE SumOver(_, _)
SumOver(S, g) ==
    IF S = {} THEN 0
    ELSE LET m == CHOOSE x \in S : TRUE IN g[m] + SumOver(S \ {m}, g)

NumPresent == Cardinality(Present)
SumF == SumOver(Present, [m \in Methods |-> InFreq(m)])
SumFF == SumOver(Present, [m \in Methods |-> InFreq(m) * InFreq(m)])
SumW == SumOver(Present, [m \in Methods |-> InWeight(m)])
SumFW == SumOver(Present, [m \in Methods |-> InFreq(m) * InWeight(m)])
\* n^2 * (variance - 100): negative, zero or positive as the population
\* standard deviation is below, equal to or above 10 Hz
StdVsTen == NumPresent * SumFF - SumF * SumF - 100 * NumPresent * NumPresent

\* C1: with two or more frequencies > 0 and a standard deviation < 10 Hz the
\* result is (sum(f*w) / sum(w), sum(w) / n) for the weights own confidence,
\* 0.8, 0.6; with a standard deviation of exactly 10 Hz the result is one of
\* the input pairs instead
C1_ConsistentAverage ==
    (op = "fusion" /\ NumPresent >= 2) =>
        /\ StdVsTen < 0 =>
              /\ fused.freq[1] * SumW = SumFW * fused.freq[2]
              /\ fused.conf[1] * NumPresent = SumW * fused.conf[2]
        /\ StdVsTen = 0 => \E m \in Present : fused = InPair(m)

C1_Witness ==
    /\ op = "fusion" /\ NumPresent = 3 /\ StdVsTen < 0
    /\ freq1 # freq2 /\ freq2 # freq3 /\ conf1 = 12
    /\ fused.freq[2] # 1

\* C2: with two or more frequencies > 0 and a standard deviation >= 10 Hz
\* the result is one of the input pairs, its weight is >= every remaining
\* weight, and with a YIN estimate present the returned weight is at least
\* 0.8, so it is not the autocorrelation estimate
C2_DisagreeHighestWeight ==
    (op = "fusion" /\ NumPresent >= 2 /\ StdVsTen >= 0) =>
        /\ \E m \in Present :
              /\ fused = InPair(m)
              /\ \A k \in Present : InWeight(k) <= InWeight(m)
        /\ freq2 > 0 => fused.conf[1] >= 8 * fused.conf[2]
        /\ (freq2 > 0 /\ freq3 > 0 /\ freq3 # freq2 /\ freq3 # freq1)
              => fused # InPair(3)

C2_Witness ==
    /\ op = "fusion" /\ NumPresent = 3 /\ StdVsTen > 0
    /\ conf1 = 3 /\ freq3 # freq2
    /\ fused = InPair(2)

\* the result of the whole call on other estimator reports
MultiMethod(f1, c1, f2, f3) == FuseResults(CollectValid(f1, c1, f2, f3))
NonPositive == {-100, -1, 0}

\* C3: the collected list holds exactly the reports with frequency > 0,
\* no report left gives (0, 0), and replacing a dropped report by any other
\* report with frequency <= 0 (and any confidence) leaves the result as is
C3_DropNonPositive ==
    op = "fusion" =>
        /\ \A i \in 1..Len(frequencies) : frequencies[i][1] > 0
        /\ Len(frequencies) = NumPresent
        /\ Present = {} => fused = [freq |-> <<0, 1>>, conf |-> <<0, 1>>]
        /\ freq1 <= 0 => \A v \in NonPositive, c \in ConfValues \cup {0} :
              MultiMethod(v, c, freq2, freq3) = fused
        /\ freq2 <= 0 => \A v \in NonPositive :
              MultiMethod(freq1, conf1, v, freq3) = fused
        /\ freq3 <= 0 => \A v \in NonPositive :
              MultiMethod(freq1, conf1, freq2, v) = fused

C3_Witness ==
    /\ op = "fusion" /\ freq2 = 0 /\ freq1 > 0 /\ freq3 > 0
    /\ Len(frequencies) = 2

\* C4: with exactly one frequency > 0 the result is that frequency and its
\* weight, unchanged
C4_SingleUnchanged ==
    (op = "fusion" /\ NumPresent = 1) =>
        \A m \in Present : fused = InPair(m)

C4_Witness ==
    /\ op = "fusion" /\ Present = {2}
    /\ fused = [freq |-> <<freq2, 1>>, conf |-> <<8, 1>>]

MinWeight == IF conf1 < 6 THEN conf1 ELSE 6

Permuted(fs, p) == [i \in 1..Len(fs) |-> fs[p[i]]]
Orders == Permutations(1..Len(frequencies))

TopWeight(m) == \A k \in Present : InWeight(k) <= InWeight(m)
TiedDisagreement ==
    /\ NumPresent >= 2 /\ StdVsTen >= 0
    /\ \E m, k \in Present :
          /\ TopWeight(m) /\ TopWeight(k) /\ InFreq(m) # InFreq(k)

NumFrames == Len(voiced_frames)
\* the maximal runs of voiced frames, as <<first, last>> 0-based frames
Runs ==
    {r \in (0..(NumFrames - 1)) \X (0..(NumFrames - 1)) :
        /\ r[1] <= r[2]
        /\ \A i \in r[1]..r[2] : voiced_frames[i + 1]
        /\ r[1] = 0 \/ ~voiced_frames[r[1]]
        /\ r[2] = NumFrames - 1 \/ ~voiced_frames[r[2] + 2]}
RunLength(r) == r[2] - r[1] + 1
Kept(r) == \E i \in 1..Len(segments) : segments[i][1] = r[1] * 512

\* C7 as claimed: for every frame pattern and min_duration the segments are
\* ordered, do not overlap, and each has start < end
C7_OrderedDisjointNonEmpty ==
    op = "segments" =>
        /\ \A i \in 1..Len(segments) : segments[i][1] < segments[i][2]
        /\ \A i \in 1..(Len(segments) - 1) :
              segments[i][2] <= segments[i + 1][1]

\* C8 as claimed: every segment comes from one maximal run of voiced frames,
\* no run gives two segments, and two runs of the same number of frames get
\* the same keep/discard decision however they are closed
C8_RunsTreatedAlike ==
    op = "segments" =>
        /\ \A i \in 1..Len(segments) :
              \E r \in Runs : segments[i][1] = r[1] * 512
        /\ \A i, j \in 1..Len(segments) :
              segments[i][1] = segments[j][1] => i = j
        /\ \A r, q \in Runs :
              RunLength(r) = RunLength(q) => (Kept(r) <=> Kept(q))

\* C9: a frame is voiced exactly when its RMS is above a tenth of the mean
\* RMS; frames of zero energy only give no voiced frame and no segment; a
\* frame of non-zero energy gives at least one voiced frame
C9_VoicedAboveTenthOfMean ==
    op = "segments" =>
        /\ Len(voiced_frames) = Len(rms)
        /\ \A i \in 1..Len(rms) :
              voiced_frames[i] <=> (10 * Len(rms) * rms[i] > SumSeq(rms))
        /\ (\A i \in 1..Len(rms) : rms[i] = 0) =>
              /\ \A i \in 1..Len(rms) : ~voiced_frames[i]
              /\ segments = <<>>
        /\ (\E i \in 1..Len(rms) : rms[i] > 0) =>
              \E i \in 1..Len(rms) : voiced_frames[i]

C9_Witness ==
    /\ op = "segments" /\ Len(rms) >= 3
    /\ \A i \in 1..Len(rms) : rms[i] = 0
    /\ min_duration = 0
    /\ segments = <<>>

\* -------------------------------------------------------- claims: contour
\* C10 as claimed: the loop visits exactly the offsets k * hop that are
\* <= len(y) - frame_samples: one frame at offset 0 when the lengths are
\* equal, no frame when the buffer is shorter than a frame
C10_OffsetsUpToLastFullFrame ==
    (op = "contour" /\ ~raised) =>
        /\ \A k \in 0..len_y :
              (k * (frame_samples \div 2) <= len_y - frame_samples)
                  <=> (\E i \in 1..Len(offsets) :
                          offsets[i] = k * (frame_samples \div 2))
        /\ \A i \in 1..Len(offsets) :
              \E k \in 0..len_y : offsets[i] = k * (frame_samples \div 2)
        /\ len_y = frame_samples => offsets = <<0>>
        /\ len_y < frame_samples => offsets = <<>>

\* ------------------------------------------------- claims: contour result
NumContourFrames == Len(contour_frequencies)
ContourDone == op = "contour" /\ ~raised

RECURSIVE Pow2(_)
Pow2(k) == IF k <= 0 THEN 1 ELSE 2 * Pow2(k - 1)

\* frame i is i octaves-by-twelve semitones above frame j: f_i = f_j * 2^(iv/12)
MeasuredFrom(i, j, iv) ==
    /\ iv % 12 = 0
    /\ contour_frequencies[i] * Pow2(0 - (iv \div 12))
          = contour_frequencies[j] * Pow2(iv \div 12)

\* C11: every interval is measured against the frequency of frame 0: frame 0
\* has interval 0, a frame with frequency <= 0 has interval 0, and with a
\* frame 0 of frequency <= 0 every interval is 0
C11_IntervalsFromFrameZero ==
    ContourDone =>
        /\ Len(intervals) = NumContourFrames
        /\ NumContourFrames >= 1 => intervals[1] = 0
        /\ \A i \in 1..NumContourFrames :
              /\ contour_frequencies[i] <= 0 => intervals[i] = 0
              /\ contour_frequencies[1] <= 0 => intervals[i] = 0
              /\ (contour_frequencies[i] > 0 /\ contour_frequencies[1] > 0)
                    => MeasuredFrom(i, 1, intervals[i])

C11_Witness ==
    /\ ContourDone /\ NumContourFrames >= 3
    /\ contour_frequencies[1] = 880
    /\ contour_frequencies[2] = 0
    /\ contour_frequencies[3] = 440
    /\ intervals[3] = -12

FirstVoiced(k) ==
    /\ contour_frequencies[k] > 0
    /\ \A m \in 1..(k - 1) : contour_frequencies[m] <= 0

\* C12 as claimed: each interval is relative to the first voiced frame; with
\* frame 0 silent and frame k the first voiced one, a later voiced frame has
\* its interval measured from frame k
C12_RelativeToFirstVoiced ==
    ContourDone =>
        \A k \in 1..NumContourFrames : FirstVoiced(k) =>
            \A i \in (k + 1)..NumContourFrames :
                contour_frequencies[i] > 0
                    => MeasuredFrom(i, k, intervals[i])

\* C12 amended: each interval is relative to frame 0, which is the first
\* voiced frame only when frame 0 itself is voiced; with frame 0 silent and
\* a later frame k the first voiced one, every frame after k has interval 0
C12_FirstVoicedOnlyIfFrameZero ==
    ContourDone =>
        \A k \in 1..NumContourFrames : FirstVoiced(k) =>
            \A i \in (k + 1)..NumContourFrames :
                /\ (k = 1 /\ contour_frequencies[i] > 0)
                      => MeasuredFrom(i, k, intervals[i])
                /\ k > 1 => intervals[i] = 0

C12_Witness ==
    /\ ContourDone /\ NumContourFrames >= 3
    /\ contour_frequencies[1] = 0
    /\ contour_frequencies[2] = 440
    /\ contour_frequencies[3] = 880
    /\ intervals[3] = 0

\* C13: times, frequencies, notes, confidences and intervals have one entry
\* per frame; a note is "Silent" exactly when the frame's frequency is <= 0,
\* otherwise a pitch class with an octave; "Unknown" never appears
C13_OneEntryPerFrameSilentNotes ==
    ContourDone =>
        /\ Len(times) = Len(offsets)
        /\ Len(contour_frequencies) = Len(offsets)
        /\ Len(notes) = Len(offsets)
        /\ Len(confidences) = Len(offsets)
        /\ Len(intervals) = Len(offsets)
        /\ \A i \in 1..Len(notes) :
              /\ notes[i].name = "Silent" <=> contour_frequencies[i] <= 0
              /\ notes[i].name # "Unknown"
              /\ contour_frequencies[i] > 0 =>
                    \E j \in 1..12 : notes[i].name = note_names[j]

C13_Witness ==
    /\ ContourDone /\ Len(notes) >= 2
    /\ contour_frequencies[1] = 0 /\ notes[1].name = "Silent"
    /\ contour_frequencies[2] = 440 /\ notes[2] = [name |-> "A", octave |-> 4]

Defined(q) == q[2] # 0

\* C14 as claimed: interval_range = max_interval - min_interval over all
\* frames, min_interval <= 0 <= max_interval with at least one frame,
\* avg_confidence is the mean over all frames, avg_frequency the mean over
\* the frames with frequency > 0, and with no frame or no voiced frame the
\* averages are still defined (zero)
C14_StatisticsAlwaysDefined ==
    ContourDone =>
        /\ statistics.interval_range
              = statistics.max_interval - statistics.min_interval
        /\ \A i \in 1..Len(intervals) :
              /\ statistics.min_interval <= intervals[i]
              /\ intervals[i] <= statistics.max_interval
        /\ NumContourFrames >= 1 =>
              /\ statistics.min_interval <= 0
              /\ 0 <= statistics.max_interval
        /\ NumContourFrames >= 1 =>
              statistics.avg_confidence[1] * NumContourFrames
                  = SumSeq(confidences) * statistics.avg_confidence[2]
        /\ Defined(statistics.avg_frequency)
        /\ Defined(statistics.avg_confidence)
        /\ NumContourFrames = 0 => statistics.avg_confidence = <<0, 1>>
        /\ (\A i \in 1..NumContourFrames : contour_frequencies[i] <= 0)
              => statistics.avg_frequency = <<0, 1>>

\* C15: a contour call with end_time <= start_time raises before any audio
\* is loaded: nothing is framed, estimated or returned
C15_InvalidRangeRejectedEarly ==
    (op = "contour" /\ contour_end <= contour_start) =>
        /\ raised /\ ~loaded
        /\ offsets = <<>> /\ times = <<>> /\ contour_frequencies = <<>>
        /\ confidences = <<>> /\ notes = <<>> /\ intervals = <<>>

C15_Witness ==
    /\ op = "contour" /\ contour_end = contour_start /\ contour_end > 0
    /\ raised /\ ~loaded

\* ------------------------------------------------- claims: analyze_pitch
StartOrZero == IF ap_start # <<>> THEN ap_start[1] ELSE 0

\* C16 as claimed: with an end_time, analyze_pitch raises the invalid-range
\* error, before loading, exactly when end <= start (start 0 when absent);
\* for end > start, negative starts included, it loads end - start seconds
C16_RangeErrorIffEndNotAfterStart ==
    (op = "analyze" /\ ap_error # "format" /\ ap_end # <<>>) =>
        /\ ap_error = "range" <=> ap_end[1] <= StartOrZero
        /\ ap_error = "range" => ~ap_loaded
        /\ ap_end[1] > StartOrZero =>
              /\ ap_loaded
              /\ duration = <<ap_end[1] - StartOrZero>>

\* ----------------------------------------- claims: autocorrelation_pitch
\* C17 as claimed: on a silent buffer and on a buffer no longer than the
\* longest lag, autocorrelation_pitch does not raise, does not divide by the
\* zero peak amplitude, and returns 0
C17_EmptySignalReturnsZeroUndivided ==
    (op = "autocorr" /\ (ac_silent \/ ac_len <= max_period(ac_sr))) =>
        /\ ~ac_raised
        /\ ~ac_divided
        /\ ac_result = <<0, 1>>

\* --------------------------------------------- claims: frequency_to_note
NoteDone == op = "note" /\ note_sign > 0

\* the label of pitch class r (0 = C) in octave o
PitchLabel(r, o) == [name |-> note_names[r + 1], octave |-> o]

\* the label frequency_to_note gives the note number n, read off the claim:
\* n = 12 * k + r with 0 <= r < 12 is pitch class r in octave k - 1
LabelOfNumber(n) ==
    CHOOSE l \in {PitchLabel(r, k - 1) : r \in 0 .. 11, k \in -3 .. 14} :
        \E r \in 0 .. 11, k \in -3 .. 14 :
            n = 12 * k + r /\ l = PitchLabel(r, k - 1)

\* C18: frequency_to_note returns "Unknown" for a frequency <= 0, otherwise
\* names[n mod 12] with octave (n - 12) div 12 for the nearest note number n:
\* 69 is A4, 72 is C5, 60 is C4, the octave steps up exactly at each C, and
\* n + 12 has the same name one octave higher, also for n < 12
C18_NoteLabels ==
    /\ (op = "note" /\ note_sign <= 0) => note = Unknown
    /\ NoteDone =>
          /\ 4 * note_number - (note_offset + 4 * 69) \in -2 .. 2
          /\ note = LabelOfNumber(note_number)
          /\ note_number = 69 => note = PitchLabel(9, 4)
          /\ note_number = 72 => note = PitchLabel(0, 5)
          /\ note_number = 60 => note = PitchLabel(0, 4)
          /\ LET up == NoteOf(note_number + 1)
                 higher == NoteOf(note_number + 12)
             IN  /\ up.octave = note.octave + (IF up.name = "C" THEN 1 ELSE 0)
                 /\ higher.name = note.name
                 /\ higher.octave = note.octave + 1

C18_Witness ==
    NoteDone /\ note_number = 5 /\ note = [name |-> "F", octave |-> -1]

\* C19 as claimed: round(12*log2(f/440) + 69) equals 69 + round(12*log2(f/440))
\* for every offset, the exactly halfway ones included
C19_SameAsRoundedOffset ==
    NoteDone => note_number = 69 + RoundQuarters(note_offset)

\* C19, amended: the two note numbers agree for every offset that is not
\* exactly halfway between two semitones; at an exactly halfway offset they
\* are the two neighbours: the code returns the even one, 69 + round(offset)
\* is the odd one
C19_SameExceptAtTies ==
    NoteDone =>
        LET specified == 69 + RoundQuarters(note_offset)
        IN  IF note_offset % 4 # 2
            THEN note_number = specified
            ELSE /\ note_number % 2 = 0
                 /\ specified % 2 = 1
                 /\ note_number - specified \in {-1, 1}

C19_Witness ==
    NoteDone /\ note_offset = 2 /\ note_number = 70

\* ----------------------------------------------- claims: compare_pitches
Compared == op = "compare"
BothValid == cmp_in.freq1 > 0 /\ cmp_in.freq2 > 0
Larger == IF cmp_in.freq1 >= cmp_in.freq2 THEN cmp_in.freq1 ELSE cmp_in.freq2
Smaller == IF cmp_in.freq1 >= cmp_in.freq2 THEN cmp_in.freq2 ELSE cmp_in.freq1

\* |f1 - f2| / max(f1, f2) <= tolerance, for valid frequencies
WithinTolerance == 100 * (Larger - Smaller) <= cmp_in.tolerance * Larger

\* the result of the call with the two arguments exchanged
Swapped ==
    ComparePitches(cmp_in.freq2, cmp_in.freq1, cmp_in.conf2, cmp_in.conf1,
                   cmp_in.tolerance)

SelfComparison ==
    /\ Compared /\ cmp_in.freq1 > 0
    /\ cmp_in.freq2 = cmp_in.freq1 /\ cmp_in.conf2 = cmp_in.conf1

SameExactlyWithinTolerance ==
    Compared =>
        /\ comparison.is_same_pitch <=> (BothValid /\ WithinTolerance)
        /\ ~BothValid => /\ ~comparison.is_same_pitch
                         /\ comparison.confidence = <<0, 1>>
        /\ Swapped = comparison

\* C20 as claimed: is_same_pitch holds exactly when both frequencies are > 0
\* and the relative error is <= tolerance, an invalid frequency gives
\* confidence 0, swapping the arguments changes nothing, and a result with
\* frequency > 0 compared with itself is always the same pitch
C20_SelfComparisonAlwaysSame ==
    /\ SameExactlyWithinTolerance
    /\ SelfComparison => comparison.is_same_pitch

\* C20, amended: as claimed, except that a result with frequency > 0
\* compared with itself is the same pitch exactly when the tolerance is >= 0;
\* under a negative tolerance no pair is the same pitch
C20_SelfComparisonSameIfToleranceNonNegative ==
    /\ SameExactlyWithinTolerance
    /\ SelfComparison =>
          (comparison.is_same_pitch <=> cmp_in.tolerance >= 0)
    /\ (Compared /\ cmp_in.tolerance < 0) => ~comparison.is_same_pitch

C20_Witness ==
    /\ Compared /\ cmp_in.freq1 = 400 /\ cmp_in.freq2 = 380
    /\ cmp_in.tolerance = 5 /\ cmp_in.conf1 = 8 /\ cmp_in.conf2 = 3
    /\ comparison.is_same_pitch
    /\ comparison.relative_error = <<1, 20>>
    /\ comparison.confidence = <<57, 20>>

C22_ContourOptionsAccepted ==
    (/\ op = "main" /\ cli_existing >= 1
     /\ {"--pitch-contour", "--start-time", "--end-time", "--frame-size"}
            \subseteq cli_options) =>
        exit_status = 0 /\ cli_mode = "contour"

\* ------------------------------------- claims: analyze_pitch, the result
Analyzed == op = "analyze" /\ ap_error = "none"

\* start_time or end_time as the caller passed it
Passed(t) == IF t = <<>> THEN <<"none", 0>> ELSE <<"argument", t[1]>>

\* C23 as claimed: time_range.start_time and time_range.end_time of the
\* result are the arguments the caller passed, None when not passed,
\* whatever voiced segments were found
C23_TimeRangeHoldsArguments ==
    Analyzed => time_range = <<Passed(ap_start), Passed(ap_end)>>

\* the voiced segments the loop visits
NumVisited == IF Len(ap_voiced) < 5 THEN Len(ap_voiced) ELSE 5

\* C24: segment_pitches has at most 5 entries, each with frequency > 0 and
\* the start and end of one of the first five voiced segments, in the order
\* of voiced_segments; it holds exactly the visited segments that got a
\* frequency > 0, so a segment that raised, was too short or had frequency 0
\* removes no other entry, and the call returns a result
C24_FirstFiveSegmentsSkipFailures ==
    (op = "analyze" /\ ap_loaded /\ ap_method \in KnownMethods) =>
        /\ Analyzed
        /\ Len(segment_pitches) <= 5
        /\ \A i \in 1 .. Len(segment_pitches) :
              /\ segment_pitches[i].frequency > 0
              /\ \E k \in 1 .. NumVisited :
                    /\ segment_pitches[i].start_time = ap_voiced[k][1]
                    /\ segment_pitches[i].end_time = ap_voiced[k][2]
                    /\ ap_outcomes[k] = "pitched"
        /\ \A i, j \in 1 .. Len(segment_pitches) :
              i < j => segment_pitches[i].end_time
                           < segment_pitches[j].start_time
        /\ \A k \in 1 .. NumVisited :
              ap_outcomes[k] = "pitched" =>
                  \E i \in 1 .. Len(segment_pitches) :
                      segment_pitches[i].start_time = ap_voiced[k][1]

C24_Witness ==
    /\ Analyzed /\ Len(ap_voiced) = 6
    /\ ap_outcomes = <<"pitched", "raises", "short", "zero", "pitched">>
    /\ Len(segment_pitches) = 2
    /\ segment_pitches[2].start_time = ap_voiced[5][1]

\* C25: the overall pitch of a result has confidence 0 and note "Unknown"
\* when its frequency is 0, and confidence > 0 when its frequency is > 0,
\* 0.8 for yin and 0.6 for autocorr; a method name without a branch raises
\* and no result is returned
C25_UndetectedConvention ==
    /\ Analyzed =>
          /\ ap_method \in {"multi", "piptrack", "yin", "autocorr"}
          /\ ap_overall.freq[1] = 0 =>
                 ap_overall.conf[1] = 0 /\ ap_note.name = "Unknown"
          /\ ap_overall.freq[1] > 0 =>
                 /\ ap_overall.conf[1] > 0
                 /\ ap_method = "yin" => ap_overall.conf = <<8, 1>>
                 /\ ap_method = "autocorr" => ap_overall.conf = <<6, 1>>
    /\ (op = "analyze" /\ ap_loaded
          /\ ap_method \notin {"multi", "piptrack", "yin", "autocorr"}) =>
          ap_error = "method"

C25_Witness ==
    /\ Analyzed /\ ap_method = "autocorr"
    /\ ap_overall.freq = <<880, 1>> /\ ap_overall.conf[1] = 6
    /\ ap_note = [name |-> "A", octave |-> 5]

\* ------------------------------------ claims: the comparison's consumers
\* C26 as claimed: every dict compare_pitches returns, the one for a
\* frequency <= 0 included, holds every key print_comparison_result, the
\* verbose output of main and the summary of compare_multiple_files read
C26_ConsumersFindEveryKey ==
    op = "compare" =>
        (PrintReads \cup VerboseReads \cup SummaryReads)
            \subseteq comparison_keys

\* --------------------------------------- claims: compare_multiple_files
NumPaths == Len(cm_files)
NumSucceeded == Cardinality({k \in 1 .. NumPaths : ~cm_files[k].raised})

\* the successful results are the files that did not raise, in path order
SkipsFailures ==
    \E pos \in [1 .. Len(cm_results) -> 1 .. NumPaths] :
        /\ \A a, b \in 1 .. Len(cm_results) : a < b => pos[a] < pos[b]
        /\ \A a \in 1 .. Len(cm_results) : cm_results[a] = cm_files[pos[a]]
        /\ \A k \in 1 .. NumPaths :
              ~cm_files[k].raised => \E a \in 1 .. Len(cm_results) : pos[a] = k

\* C27: compare_multiple_files raises for fewer than 2 paths and for fewer
\* than 2 successfully analyzed files, skipping the files whose analysis
\* raised; otherwise it compares every pair (i, j), i < j, of the n results
\* exactly once, in that order, and reports file_count = n, total_pairs =
\* n * (n - 1) / 2, same_pitch_pairs <= total_pairs and same_pitch_ratio =
\* same_pitch_pairs / total_pairs within [0, 1]
C27_EveryPairOnce ==
    op = "multi" =>
        /\ cm_error = "paths" <=> NumPaths < 2
        /\ cm_error = "results" <=> (NumPaths >= 2 /\ NumSucceeded < 2)
        /\ cm_error = "none" =>
              LET n == NumSucceeded
                  total == cm_summary.total_pairs
                  same == cm_summary.same_pitch_pairs
              IN  /\ SkipsFailures
                  /\ cm_file_count = n
                  /\ 2 * total = n * (n - 1)
                  /\ Len(cm_pairs) = total /\ Len(cm_comparisons) = total
                  /\ \A i, j \in 1 .. n :
                        i < j => Cardinality({k \in 1 .. total :
                                     cm_pairs[k] = <<i, j>>}) = 1
                  /\ \A k \in 1 .. total : cm_pairs[k][1] < cm_pairs[k][2]
                  /\ \A k, l \in 1 .. total :
                        k < l =>
                          \/ cm_pairs[k][1] < cm_pairs[l][1]
                          \/ /\ cm_pairs[k][1] = cm_pairs[l][1]
                             /\ cm_pairs[k][2] < cm_pairs[l][2]
                  /\ same = Cardinality({k \in 1 .. total :
                                cm_comparisons[k].is_same_pitch})
                  /\ same <= total
                  /\ cm_summary.same_pitch_ratio[1] * total
                        = same * cm_summary.same_pitch_ratio[2]
                  /\ cm_summary.same_pitch_ratio[1] >= 0
                  /\ cm_summary.same_pitch_ratio[1]
                        <= cm_summary.same_pitch_ratio[2]

C27_Witness ==
    /\ op = "multi" /\ cm_error = "none" /\ NumPaths = 3
    /\ cm_file_count = 3
    /\ cm_pairs = <<<<1, 2>>, <<1, 3>>, <<2, 3>>>>
    /\ cm_summary.same_pitch_pairs = 1
    /\ cm_summary.same_pitch_ratio = <<1, 3>>

\* --------------------------------------------------------------- C28
RECURSIVE MinOf(_)
MinOf(s) ==
    IF Len(s) = 1 THEN s[1]
    ELSE LET m == MinOf(Tail(s)) IN IF s[1] < m THEN s[1] ELSE m
RECURSIVE MaxOf(_)
MaxOf(s) ==
    IF Len(s) = 1 THEN s[1]
    ELSE LET m == MaxOf(Tail(s)) IN IF s[1] > m THEN s[1] ELSE m
\* lo <= n/d <= hi for a quotient <<n, d>> with d > 0
Between(lo, q, hi) == q[2] > 0 /\ lo * q[2] <= q[1] /\ q[1] <= hi * q[2]

SearchedLags(sr) == min_period(sr) .. (max_period(sr) - 1)

\* C29 as claimed: for every sample rate and every buffer the call returns
\* (it does not raise), divides by no zero, and its result is 0 or sr / lag
\* for a lag >= 1 of the searched range, a non-zero result lying in
\* [80 Hz, 2000 Hz]
C29_ZeroOrSrOverSearchedLag ==
    op = "autocorr" =>
        /\ ~ac_raised
        /\ ~ac_divided
        /\ \/ ac_result = <<0, 1>>
           \/ /\ \E lag \in SearchedLags(ac_sr) :
                     lag >= 1 /\ ac_result = Ratio(ac_sr, lag)
              /\ Between(80, ac_result, 2000)

\* --------------------------------------------------------------- C30
\* C30 as claimed: a contour call on a supported file with start_time <
\* end_time and a frame of at least one sample (so frame_size > 0) does not
\* raise, advances by a hop of at least one sample, visits at most one frame
\* per sample of the buffer, records strictly increasing time points and
\* has its statistics computed over exactly the recorded frames
C30_ContourReachesDone ==
    (op = "contour" /\ loaded /\ contour_start < contour_end
        /\ frame_samples >= 1) =>
        /\ ~raised
        /\ HopSamples(frame_samples) >= 1
        /\ Len(times) <= len_y
        /\ \A k \in 1..(Len(times) - 1) : times[k] < times[k + 1]
        /\ statistics =
               Statistics(contour_frequencies, confidences, intervals)

====
